---- MODULE Spec2Model ----
(***************************************************************************)
(* A model of OrionMCPClient (src/orion_mcp_client.py): the per-call       *)
(* session protocol of _call_tool, list_tools and list_resources, and the  *)
(* decoding of a tool reply into the value handed back to the caller.      *)
(*                                                                         *)
(* Text is a sequence of one-character strings.  Python values are records *)
(* of one shape (PyValue) so that any two of them can be compared the way  *)
(* Python's == compares the values _call_tool returns.                     *)
(***************************************************************************)
EXTENDS Integers, Sequences, FiniteSets, TLC

(***************************************************************************)
(* Bounds of the model.                                                    *)
(***************************************************************************)
\* Longest reply text that is enumerated exhaustively over Chars.
MaxTextLen == 5
\* Operations started on the client in one behaviour.
MaxStarts == 2

(***************************************************************************)
(* Python values.                                                          *)
(***************************************************************************)
NoReply == [isError |-> FALSE, content |-> <<>>, contentIsNone |-> FALSE]

PyValue(t, n, s, items, members, obj) ==
    [t |-> t, n |-> n, s |-> s, items |-> items, members |-> members, obj |-> obj]

PyNone == PyValue("none", 0, <<>>, <<>>, {}, NoReply)
PyBool(b) == PyValue("bool", IF b THEN 1 ELSE 0, <<>>, <<>>, {}, NoReply)
PyInt(n) == PyValue("int", n, <<>>, <<>>, {}, NoReply)
\* float("nan"), float("inf"), float("-inf"): named, not computed with.
PyFloat(name) == PyValue("float", 0, name, <<>>, {}, NoReply)
PyStr(s) == PyValue("str", 0, s, <<>>, {}, NoReply)
PyList(items) == PyValue("list", 0, <<>>, items, {}, NoReply)
\* A dict is its set of <<key, value>> pairs: dict equality ignores order.
PyDict(members) == PyValue("dict", 0, <<>>, <<>>, members, NoReply)
\* A library object handed back as it is (the CallToolResult).
PyObj(obj) == PyValue("obj", 0, <<>>, <<>>, {}, obj)

\* d[k] = v on a dict's pairs: a repeated key keeps the last value.
DictSet(members, k, v) == {p \in members : p[1] # k} \cup {<<k, v>>}

(***************************************************************************)
(* json.loads(text), as the standard library's decoder scans it.  Exact on *)
(* texts without backslash, control characters, '.', 'e' or 'E'.           *)
(***************************************************************************)
Quote == "\""
Whitespace == {" "}
Digits == {"0", "1", "2", "3", "4", "5", "6", "7", "8", "9"}
DigitVal(c) ==
    CASE c = "0" -> 0 [] c = "1" -> 1 [] c = "2" -> 2 [] c = "3" -> 3
      [] c = "4" -> 4 [] c = "5" -> 5 [] c = "6" -> 6 [] c = "7" -> 7
      [] c = "8" -> 8 [] c = "9" -> 9

\* s[i], or the empty string past either end.
At(s, i) == IF i \in 1..Len(s) THEN s[i] ELSE ""

\* s starts with the characters lit at position i.
StartsWith(s, i, lit) ==
    /\ i + Len(lit) - 1 <= Len(s)
    /\ \A k \in 1..Len(lit) : s[i + k - 1] = lit[k]

RECURSIVE SkipWs(_, _)
SkipWs(s, i) == IF At(s, i) \in Whitespace THEN SkipWs(s, i + 1) ELSE i

\* A scan's outcome: ok, the value and the index after it; or the
\* JSONDecodeError (ok = FALSE).
Scanned(val, end) == [ok |-> TRUE, val |-> val, end |-> end]
DecodeError == [ok |-> FALSE, val |-> PyNone, end |-> 0]

\* The index of the first quote at or after i, 0 if there is none.
RECURSIVE FindQuote(_, _)
FindQuote(s, i) ==
    IF i > Len(s) THEN 0
    ELSE IF s[i] = Quote THEN i
    ELSE FindQuote(s, i + 1)

\* py_scanstring from the character after the opening quote.
ScanString(s, i) ==
    LET j == FindQuote(s, i)
    IN  IF j = 0 THEN DecodeError
        ELSE Scanned(PyStr(SubSeq(s, i, j - 1)), j + 1)

\* The index after the run of digits starting at i.
RECURSIVE DigitsEnd(_, _)
DigitsEnd(s, i) == IF At(s, i) \in Digits THEN DigitsEnd(s, i + 1) ELSE i

RECURSIVE DigitsValue(_, _, _, _)
DigitsValue(s, i, end, acc) ==
    IF i >= end THEN acc
    ELSE DigitsValue(s, i + 1, end, 10 * acc + DigitVal(s[i]))

\* NUMBER_RE.match(s, i): -?(0|[1-9][0-9]*), an integer.
ScanNumber(s, i) ==
    LET neg == At(s, i) = "-"
        d == IF neg THEN i + 1 ELSE i
        end == IF At(s, d) = "0" THEN d + 1 ELSE DigitsEnd(s, d)
        mag == DigitsValue(s, d, end, 0)
    IN  IF At(s, d) \notin Digits THEN DecodeError
        ELSE Scanned(PyInt(IF neg THEN 0 - mag ELSE mag), end)

LitNull == <<"n", "u", "l", "l">>
LitTrue == <<"t", "r", "u", "e">>
LitFalse == <<"f", "a", "l", "s", "e">>
LitNaN == <<"N", "a", "N">>
LitInfinity == <<"I", "n", "f", "i", "n", "i", "t", "y">>
LitNegInfinity == <<"-">> \o LitInfinity
FloatNan == <<"n", "a", "n">>
FloatInf == <<"i", "n", "f">>
FloatNegInf == <<"-", "i", "n", "f">>

RECURSIVE ScanOnce(_, _), ArrayItems(_, _, _), ObjectItems(_, _, _)

\* JSONArray after '[' and the first value's whitespace: the values so
\* far are acc, the next value starts at i.
ArrayItems(s, i, acc) ==
    LET v == ScanOnce(s, i)
        e == SkipWs(s, v.end)
    IN  IF ~v.ok THEN DecodeError
        ELSE IF At(s, e) = "]" THEN Scanned(PyList(Append(acc, v.val)), e + 1)
        ELSE IF At(s, e) # "," THEN DecodeError
        ELSE ArrayItems(s, SkipWs(s, e + 1), Append(acc, v.val))

\* JSONObject at the opening quote of a key (position i): the pairs so
\* far are acc.
ObjectItems(s, i, acc) ==
    LET k == ScanString(s, i + 1)
        c == SkipWs(s, k.end)
        v == ScanOnce(s, SkipWs(s, c + 1))
        e == SkipWs(s, v.end)
        n == SkipWs(s, e + 1)
    IN  IF ~k.ok THEN DecodeError
        ELSE IF At(s, c) # ":" THEN DecodeError
        ELSE IF ~v.ok THEN DecodeError
        ELSE IF At(s, e) = "}"
             THEN Scanned(PyDict(DictSet(acc, k.val.s, v.val)), e + 1)
        ELSE IF At(s, e) # "," THEN DecodeError
        ELSE IF At(s, n) # Quote THEN DecodeError
        ELSE ObjectItems(s, n, DictSet(acc, k.val.s, v.val))

\* scanner.py_make_scanner._scan_once
ScanOnce(s, i) ==
    LET c == At(s, i)
        w == SkipWs(s, i + 1)
    IN  IF c = "" THEN DecodeError
        ELSE IF c = Quote THEN ScanString(s, i + 1)
        ELSE IF c = "{" THEN
            IF At(s, w) = "}" THEN Scanned(PyDict({}), w + 1)
            ELSE IF At(s, w) # Quote THEN DecodeError
            ELSE ObjectItems(s, w, {})
        ELSE IF c = "[" THEN
            IF At(s, w) = "]" THEN Scanned(PyList(<<>>), w + 1)
            ELSE ArrayItems(s, w, <<>>)
        ELSE IF StartsWith(s, i, LitNull) THEN Scanned(PyNone, i + 4)
        ELSE IF StartsWith(s, i, LitTrue) THEN Scanned(PyBool(TRUE), i + 4)
        ELSE IF StartsWith(s, i, LitFalse) THEN Scanned(PyBool(FALSE), i + 5)
        ELSE IF ScanNumber(s, i).ok THEN ScanNumber(s, i)
        ELSE IF StartsWith(s, i, LitNaN) THEN Scanned(PyFloat(FloatNan), i + 3)
        ELSE IF StartsWith(s, i, LitInfinity)
             THEN Scanned(PyFloat(FloatInf), i + 8)
        ELSE IF StartsWith(s, i, LitNegInfinity)
             THEN Scanned(PyFloat(FloatNegInf), i + 9)
        ELSE DecodeError

\* json.loads: one value between optional whitespace, nothing after it
\* ("Extra data" otherwise).
JsonLoads(s) ==
    LET v == ScanOnce(s, SkipWs(s, 1))
    IN  IF ~v.ok THEN DecodeError
        ELSE IF SkipWs(s, v.end) # Len(s) + 1 THEN DecodeError
        ELSE v


(***************************************************************************)
(* The reply of session.call_tool: a CallToolResult, read through          *)
(* `result.content`, and its content blocks, read through hasattr/getattr. *)
(***************************************************************************)
\* A content block: the attributes it has, and their values.
Block(has, text, data, mimeType) ==
    [has |-> has, text |-> text, data |-> data, mimeType |-> mimeType]
TextBlock(text) == Block({"text"}, text, PyNone, PyNone)
\* Binary-bearing: its mimeType attribute holds mime (a str, or None).
DataBlock(data, mime) == Block({"data", "mimeType"}, <<>>, PyStr(data), mime)
\* Binary-bearing with no mimeType attribute at all.
BareDataBlock(data) == Block({"data"}, <<>>, PyStr(data), PyNone)
\* Both a text and a data attribute.
TextDataBlock(text, data, mime) ==
    Block({"text", "data", "mimeType"}, text, PyStr(data), mime)
\* Neither (an embedded resource, a resource link).
OtherBlock == Block({}, <<>>, PyNone, PyNone)

\* A CallToolResult whose content is a list of blocks.
ToolResult(isError, content) ==
    [isError |-> isError, content |-> content, contentIsNone |-> FALSE]
\* A CallToolResult whose content attribute is None.
NoContentResult(isError) ==
    [isError |-> isError, content |-> <<>>, contentIsNone |-> TRUE]

HasAttr(block, name) == name \in block.has

\* getattr(content, 'mimeType', default)
GetMimeType(block, default) ==
    IF HasAttr(block, "mimeType") THEN block.mimeType ELSE default

\* What a call hands back: a returned value or a raised exception.
Return(v) == [kind |-> "return", value |-> v, exc |-> ""]
Raise(e) == [kind |-> "raise", value |-> PyNone, exc |-> e]
NoOutcome == [kind |-> "none", value |-> PyNone, exc |-> ""]

KeyType == <<"t", "y", "p", "e">>
KeyData == <<"d", "a", "t", "a">>
KeyMimeType == <<"m", "i", "m", "e", "T", "y", "p", "e">>
KeyParams == <<"p", "a", "r", "a", "m", "s">>
StrImage == <<"i", "m", "a", "g", "e">>
ImageJpeg == <<"i", "m", "a", "g", "e", "/", "j", "p", "e", "g">>
ImagePng == <<"i", "m", "a", "g", "e", "/", "p", "n", "g">>

\* Lines 67-72 without the json.loads attempt.
DecodeTextNoParse(text) == Return(PyStr(text))

\* Lines 67-72: try json.loads(content.text), except JSONDecodeError the
\* text itself.
DecodeText(text) ==
    IF JsonLoads(text).ok THEN Return(JsonLoads(text).val)
    ELSE Return(PyStr(text))

\* Lines 75-80: the image dict.
DecodeImage(block) ==
    Return(PyDict({<<KeyType, PyStr(StrImage)>>,
                   <<KeyData, block.data>>,
                   <<KeyMimeType, GetMimeType(block, PyStr(ImageJpeg))>>}))

\* Line 82 left inside the `if`: an empty reply falls off the end of the
\* function.
RawResultNone(result) == Return(PyNone)

\* Line 82: the result object itself.
RawResult(result) == Return(PyObj(result))

\* `if result.content:` is false for None and for an empty list.
Truthy(result) == ~result.contentIsNone /\ Len(result.content) > 0

\* Lines 63-82 with an `else: raise ValueError` for a first block that has
\* neither text nor data.
DecodeResultStrict(result) ==
    IF Truthy(result)
    THEN LET content == result.content[1]
         IN  IF HasAttr(content, "text") THEN DecodeText(content.text)
             ELSE IF HasAttr(content, "data") THEN DecodeImage(content)
             ELSE Raise("ValueError")
    ELSE RawResult(result)

\* Lines 63-82 with result.content[-1] on line 64.
DecodeResultLast(result) ==
    IF Truthy(result)
    THEN LET content == result.content[Len(result.content)]
         IN  IF HasAttr(content, "text") THEN DecodeText(content.text)
             ELSE IF HasAttr(content, "data") THEN DecodeImage(content)
             ELSE RawResult(result)
    ELSE RawResult(result)

\* Lines 63-82 with the tests of lines 67 and 75 in the other order.
DecodeResultDataFirst(result) ==
    IF Truthy(result)
    THEN LET content == result.content[1]
         IN  IF HasAttr(content, "data") THEN DecodeImage(content)
             ELSE IF HasAttr(content, "text") THEN DecodeText(content.text)
             ELSE RawResult(result)
    ELSE RawResult(result)

\* Lines 63-82 of _call_tool.
DecodeResult(result) ==
    IF Truthy(result)
    THEN LET content == result.content[1]
         IN  IF HasAttr(content, "text") THEN DecodeText(content.text)
             ELSE IF HasAttr(content, "data") THEN DecodeImage(content)
             ELSE RawResult(result)
    ELSE RawResult(result)

\* Line 54 without the `or {}`: the bag is passed as it came.
RequestDataNoDefault(params) == PyDict({<<KeyParams, params>>})

\* Line 54: request_data = {"params": params or {}}
RequestData(params) ==
    PyDict({<<KeyParams,
              IF params.t = "dict" /\ params.members # {} THEN params
              ELSE PyDict({})>>})

(***************************************************************************)
(* The inputs the model draws.                                             *)
(***************************************************************************)
Tasks == {"t1", "t2"}

\* Characters of the exhaustively enumerated reply texts.
Chars == {"[", "]", "{", "}", Quote, ",", "1", "a", "N"}

\* The text of length n with the characters f[1], ..., f[n].
RECURSIVE TextOf(_, _)
TextOf(f, n) == IF n = 0 THEN <<>> ELSE Append(TextOf(f, n - 1), f[n])

\* Longer texts: {"data": {}}, 2024-06-01, null, true, " -10 ", -Infinity,
\* {"a":1,"a":0}.
ExampleTexts ==
    { <<"{", Quote, "d", "a", "t", "a", Quote, ":", " ", "{", "}", "}">>,
      <<"2", "0", "2", "4", "-", "0", "6", "-", "0", "1">>,
      <<"n", "u", "l", "l">>,
      <<"t", "r", "u", "e">>,
      <<" ", "-", "1", "0", " ">>,
      LitNegInfinity,
      <<"{", Quote, "a", Quote, ":", "1", ",", Quote, "a", Quote, ":", "0", "}">> }

\* The texts of the protocol specification: a, "a" and the empty text.
TextA == <<"a">>
TextQuotedA == <<Quote, "a", Quote>>
SpecTexts == {TextA, TextQuotedA, <<>>}

PayloadData == <<"Q", "Q">>
MimeValues == {PyStr(ImagePng), PyNone}

\* First blocks that are not (only) text.
BinaryBlocks ==
    {DataBlock(PayloadData, m) : m \in MimeValues}
        \cup {BareDataBlock(PayloadData)}
OtherBlocks ==
    {OtherBlock}
        \cup {TextDataBlock(TextA, PayloadData, PyStr(ImagePng)),
              TextDataBlock(TextQuotedA, PayloadData, PyNone)}

\* What may follow the first block.
Tails == {<<>>, <<TextBlock(TextQuotedA)>>}

RepliesOver(firsts, tails, flags) ==
    {ToolResult(e, <<b>> \o tl) : b \in firsts, tl \in tails, e \in flags}

EmptyReplies ==
    {ToolResult(e, <<>>) : e \in BOOLEAN}
        \cup {NoContentResult(e) : e \in BOOLEAN}

\* The replies of the protocol specification: one of each shape.
SpecReplies ==
    { ToolResult(FALSE, <<TextBlock(TextA)>>),
      ToolResult(FALSE, <<TextBlock(TextQuotedA)>>),
      ToolResult(TRUE, <<TextBlock(TextA)>>),
      ToolResult(FALSE, <<DataBlock(PayloadData, PyNone)>>),
      ToolResult(FALSE, <<>>) }

\* The replies of the decoding specification, besides one for every text
\* of at most MaxTextLen characters of Chars.
DecodeReplies ==
    RepliesOver({TextBlock(t) : t \in ExampleTexts}, {<<>>}, {FALSE})
        \cup RepliesOver({TextBlock(t) : t \in SpecTexts}, Tails, BOOLEAN)
        \cup RepliesOver(BinaryBlocks \cup OtherBlocks, Tails, BOOLEAN)
        \cup EmptyReplies

(***************************************************************************)
(* Discovery: the server's tools and resources, and the descriptors made   *)
(* of them.                                                                *)
(***************************************************************************)
KeyName == <<"n", "a", "m", "e">>
KeyDescription == <<"d", "e", "s", "c", "r", "i", "p", "t", "i", "o", "n">>
KeyInputSchema == <<"i", "n", "p", "u", "t", "S", "c", "h", "e", "m", "a">>
KeyUri == <<"u", "r", "i">>

\* A Tool (name, description, inputSchema) or a Resource (uri, name,
\* description) of the server.
Item(uri, name, description, inputSchema) ==
    [uri |-> uri, name |-> name, description |-> description,
     inputSchema |-> inputSchema]
ToolItem(name, description, inputSchema) ==
    Item(PyNone, PyStr(name), description, inputSchema)
ResourceItem(uri, name, description) ==
    Item(PyStr(uri), PyStr(name), description, PyNone)

\* Lines 300-304.
ToolDescriptor(tool) ==
    PyDict({<<KeyName, tool.name>>,
            <<KeyDescription, tool.description>>,
            <<KeyInputSchema, tool.inputSchema>>})

\* Lines 326-330.
ResourceDescriptor(resource) ==
    PyDict({<<KeyUri, resource.uri>>,
            <<KeyName, resource.name>>,
            <<KeyDescription, resource.description>>})

\* Lines 299-306 and 325-332 over the distinct items only (a dict keyed by
\* the item in place of the list comprehension).
DescriptorsDeduped(kind, items) ==
    LET firsts == {i \in 1..Len(items) :
                      \A j \in 1..(i - 1) : items[j] # items[i]}
        nth(k) == CHOOSE i \in firsts :
                      Cardinality({j \in firsts : j < i}) = k - 1
    IN  PyList([k \in 1..Cardinality(firsts) |->
                   IF kind = "list_tools" THEN ToolDescriptor(items[nth(k)])
                   ELSE ResourceDescriptor(items[nth(k)])])

\* Lines 299-306 and 325-332: one descriptor per item, in order.
Descriptors(kind, items) ==
    PyList([i \in 1..Len(items) |->
               IF kind = "list_tools" THEN ToolDescriptor(items[i])
               ELSE ResourceDescriptor(items[i])])

ToolA == ToolItem(<<"A">>, PyStr(<<"a">>), PyDict({}))
ToolB == ToolItem(<<"B">>, PyNone, PyDict({<<KeyType, PyStr(<<"o">>)>>}))
ResourceA == ResourceItem(<<"u", ":", "A">>, <<"A">>, PyNone)
ResourceB == ResourceItem(<<"u", ":", "B">>, <<"B">>, PyStr(<<"b">>))

\* What the server may advertise.
Listings(kind) ==
    IF kind = "list_tools" THEN {<<ToolB, ToolA, ToolB>>, <<ToolA>>}
    ELSE {<<ResourceB, ResourceA>>, <<>>}

(***************************************************************************)
(* The operations started on the client.                                   *)
(***************************************************************************)
Call(kind, tool, params) == [kind |-> kind, tool |-> tool, params |-> params]

KeyVersion == <<"v", "e", "r", "s", "i", "o", "n">>
ParamsVersion == PyDict({<<KeyVersion, PyStr(<<"4", ".", "2", "0">>)>>})

\* _call_tool(tool_name, params) with a bag, with no bag (None) and with
\* the empty bag; list_tools(); list_resources().
Calls ==
    { Call("call_tool", "get_release_date", ParamsVersion),
      Call("call_tool", "get_orion_configs", PyNone),
      Call("call_tool", "get_orion_configs", PyDict({})),
      Call("list_tools", "", PyNone),
      Call("list_resources", "", PyNone) }
NoCall == Call("", "", PyNone)

\* A request on a session's write stream.
Request(method, name, arguments) ==
    [method |-> method, name |-> name, arguments |-> arguments]
NoRequest == Request("", "", PyNone)

\* Line 59, line 298, line 324: the one request of the operation.
RequestOf(c) ==
    IF c.kind = "call_tool"
    THEN Request("tools/call", c.tool, RequestData(c.params))
    ELSE IF c.kind = "list_tools" THEN Request("tools/list", "", PyNone)
    ELSE Request("resources/list", "", PyNone)

(***************************************************************************)
(* The tool wrappers with optional arguments: the bag each of them builds  *)
(* from its arguments.                                                   *)
(***************************************************************************)
KeyVersions == <<"v", "e", "r", "s", "i", "o", "n", "s">>
KeyLookback == <<"l", "o", "o", "k", "b", "a", "c", "k">>
KeyMetric == <<"m", "e", "t", "r", "i", "c">>
KeyConfig == <<"c", "o", "n", "f", "i", "g">>
KeyOptions == <<"o", "p", "t", "i", "o", "n", "s">>
KeySince == <<"s", "i", "n", "c", "e">>
KeyMetric1 == <<"m", "e", "t", "r", "i", "c", "1">>
KeyMetric2 == <<"m", "e", "t", "r", "i", "c", "2">>
KeyNightlyVersion == <<"n", "i", "g", "h", "t", "l", "y", "_", "v", "e", "r", "s", "i", "o", "n">>
KeyPreviousNightly == <<"p", "r", "e", "v", "i", "o", "u", "s", "_", "n", "i", "g", "h", "t", "l", "y">>
KeyConfigs == <<"c", "o", "n", "f", "i", "g", "s">>
Str419 == <<"4", ".", "1", "9">>
Str419420 == <<"4", ".", "1", "9", ",", "4", ".", "2", "0">>
Str420 == <<"4", ".", "2", "0">>
Str15 == <<"1", "5">>
Str30 == <<"3", "0">>
StrPodReadyLatency == <<"p", "o", "d", "R", "e", "a", "d", "y", "L", "a",
    "t", "e", "n", "c", "y", "_", "P", "9", "9">>
StrOvnCpu == <<"o", "v", "n", "C", "P", "U", "_", "a", "v", "g">>
StrSmallScaleYaml == <<"s", "m", "a", "l", "l", "-", "s", "c", "a", "l",
    "e", "-", "u", "d", "n", "-", "l", "3", ".", "y", "a", "m", "l">>
StrClusterDensityYaml == <<"t", "r", "t", "-", "e", "x", "t", "e", "r",
    "n", "a", "l", "-", "p", "a", "y", "l", "o", "a", "d", "-", "c", "l",
    "u", "s", "t", "e", "r", "-", "d", "e", "n", "s", "i", "t", "y", ".",
    "y", "a", "m", "l">>
StrJson == <<"j", "s", "o", "n">>
StrDate == <<"2", "0", "2", "4", "-", "0", "6", "-", "0", "1">>
StrNightly == <<"4", ".", "2", "2", ".", "0", "-", "0", ".", "n", "i", "g",
    "h", "t", "l", "y">>
StrPreviousNightly == <<"4", ".", "2", "1", ".", "0", "-", "0", ".", "n",
    "i", "g", "h", "t", "l", "y">>
StrConfigsList == <<"a", ".", "y", "a", "m", "l">>

\* `if since:` (lines 147, 251): None and the empty string are false.
PyTruthy(v) == v.t = "str" /\ v.s # <<>>

\* Lines 140-148.
OpenshiftReportOnParams(versions, lookback, since, metric, config, options) ==
    LET params == {<<KeyVersions, versions>>, <<KeyLookback, lookback>>,
                   <<KeyMetric, metric>>, <<KeyConfig, config>>,
                   <<KeyOptions, options>>}
    IN  PyDict(IF PyTruthy(since) THEN DictSet(params, KeySince, since)
               ELSE params)

\* Lines 244-252.
MetricsCorrelationParams(metric1, metric2, config, since, version, lookback) ==
    LET params == {<<KeyMetric1, metric1>>, <<KeyMetric2, metric2>>,
                   <<KeyConfig, config>>, <<KeyVersion, version>>,
                   <<KeyLookback, lookback>>}
    IN  PyDict(IF PyTruthy(since) THEN DictSet(params, KeySince, since)
               ELSE params)

\* Lines 275-280.
HasNightlyRegressedParams(nightly_version, previous_nightly, lookback, configs) ==
    PyDict({<<KeyNightlyVersion, nightly_version>>,
            <<KeyPreviousNightly, previous_nightly>>,
            <<KeyLookback, lookback>>,
            <<KeyConfigs, configs>>})

\* A wrapper called with the keyword arguments args: the _call_tool call
\* it makes.
WrapperCall(tool, args, params) ==
    [kind |-> "call_tool", tool |-> tool, params |-> params, args |-> args]

\* Lines 117-150: openshift_report_on(versions, since=since, options=options).
OpenshiftReportOn(versions, since, options) ==
    WrapperCall("openshift_report_on",
                {<<KeyVersions, versions>>, <<KeySince, since>>,
                 <<KeyOptions, options>>},
                OpenshiftReportOnParams(versions, PyStr(Str15), since,
                                        PyStr(StrPodReadyLatency),
                                        PyStr(StrSmallScaleYaml), options))

\* Lines 221-254: metrics_correlation(since=since, version=version).
MetricsCorrelation(since, version) ==
    WrapperCall("metrics_correlation",
                {<<KeySince, since>>, <<KeyVersion, version>>},
                MetricsCorrelationParams(PyStr(StrPodReadyLatency),
                                         PyStr(StrOvnCpu),
                                         PyStr(StrClusterDensityYaml),
                                         since, version, PyStr(Str15)))

\* Lines 256-280: has_nightly_regressed(nightly_version, previous_nightly,
\* lookback, configs).
HasNightlyRegressed(nightly_version, previous_nightly, lookback, configs) ==
    WrapperCall("has_nightly_regressed",
                {<<KeyNightlyVersion, nightly_version>>,
                 <<KeyPreviousNightly, previous_nightly>>,
                 <<KeyLookback, lookback>>, <<KeyConfigs, configs>>},
                HasNightlyRegressedParams(nightly_version, previous_nightly,
                                          lookback, configs))

\* The values the callers pass for `since`: the default None, the empty
\* string and a date.
SinceValues == {PyNone, PyStr(<<>>), PyStr(StrDate)}

WrapperCalls ==
    {OpenshiftReportOn(v, s, o) :
        v \in {PyStr(Str419), PyStr(Str419420)}, s \in SinceValues,
        o \in {PyStr(StrImage), PyStr(StrJson)}}
    \cup {MetricsCorrelation(s, v) :
             s \in SinceValues, v \in {PyStr(Str419), PyStr(Str420)}}
    \cup {HasNightlyRegressed(PyStr(StrNightly), p, l, c) :
             p \in {PyStr(<<>>), PyStr(StrPreviousNightly)},
             l \in {PyStr(Str30), PyStr(Str15)},
             c \in {PyStr(<<>>), PyStr(StrConfigsList)}}

\* self.session_id = None (line 27): no identifier.
NoSessionId == 0

\* What the transport raises when the connection cannot be opened, the
\* handshake fails or the stream breaks.
TransportErrors == {"ConnectionError"}

(***************************************************************************)
(* The state.                                                              *)
(***************************************************************************)
VARIABLES
    session_id,  \* self.session_id
    sessions,    \* every transport session opened so far, by handle
    pc,          \* where each task's operation stands
    op,          \* the operation each task runs
    handle,      \* the handle of each task's session
    request,     \* the request each task's operation sent
    reply,       \* the CallToolResult each task received
    listing,     \* the tools or resources each task received
    pending,     \* what the operation hands back once its scopes exit
    outcome,     \* what the caller got
    log,         \* the events of each task's operation, in order
    starts       \* operations started so far

vars == <<session_id, sessions, pc, op, handle, request, reply, listing,
          pending, outcome, log, starts>>

\* Line 40: the transport of a new session, not yet connected.
OpenTransport(t) ==
    [owner |-> t, state |-> "connecting", sid |-> NoSessionId,
     nInit |-> 0, initialized |-> FALSE, nReq |-> 0]

\* Lines 40-47 with the tool request written where initialize belongs.
ConnectedRequestFirst(sess) == [sess EXCEPT !.state = "open", !.nReq = @ + 1]

\* Lines 40-47: both scopes entered, the initialize request sent.
Connected(sess) == [sess EXCEPT !.state = "open", !.nInit = @ + 1]

\* Line 47 returns: the handshake is done, the server's identifier known.
Initialized(sess, sid) == [sess EXCEPT !.initialized = TRUE, !.sid = sid]

\* Lines 59, 298, 324: the operation's request goes out.
\* Line 59 (298, 324) in a loop that sends the request a second time.
RequestedTwice(sess) == [sess EXCEPT !.nReq = @ + 2]

Requested(sess) == [sess EXCEPT !.nReq = @ + 1]

\* A session closed by hand after the body, not by a scope: an exception
\* skips the close.
ExitScopeOnSuccess(sess, result) ==
    IF result.kind = "return" THEN [sess EXCEPT !.state = "closed"] ELSE sess

\* The `async with` scopes of lines 40-45 exit: the session is closed,
\* whatever the body's outcome.
\* Lines 40-45 without the `async with`: nothing closes the transport.
ExitScopeLeaked(sess, result) == sess

ExitScope(sess, result) == [sess EXCEPT !.state = "closed"]

\* A catch-all around the body that hands back None.
PropagateSwallowed(e) == Return(PyNone)

\* No except clause between lines 40 and 82: an exception leaves the
\* operation as it was raised.
Propagate(e) == Raise(e)

Init ==
    /\ session_id = NoSessionId
    /\ sessions = <<>>
    /\ pc = [t \in Tasks |-> "idle"]
    /\ op = [t \in Tasks |-> NoCall]
    /\ handle = [t \in Tasks |-> 0]
    /\ request = [t \in Tasks |-> NoRequest]
    /\ reply = [t \in Tasks |-> NoReply]
    /\ listing = [t \in Tasks |-> <<>>]
    /\ pending = [t \in Tasks |-> NoOutcome]
    /\ outcome = [t \in Tasks |-> NoOutcome]
    /\ log = [t \in Tasks |-> <<>>]
    /\ starts = 0

\* Line 40 with the transport kept on the client between calls: a call
\* after the first takes the previous call's session.
SessionsOnStartReused(t) ==
    IF sessions = <<>> THEN Append(sessions, OpenTransport(t))
    ELSE [sessions EXCEPT ![Len(sessions)] =
             [@ EXCEPT !.owner = t, !.state = "connecting"]]

\* Line 40: every call makes a transport of its own.
SessionsOnStart(t) == Append(sessions, OpenTransport(t))

\* A task calls c on the client: the coroutine runs up to its first
\* suspension, inside streamablehttp_client(...).
Start(t, c) ==
    /\ pc[t] \in {"idle", "done"}
    /\ starts < MaxStarts
    /\ starts' = starts + 1
    /\ op' = [op EXCEPT ![t] = c]
    /\ sessions' = SessionsOnStart(t)
    /\ handle' = [handle EXCEPT ![t] = Len(sessions')]
    /\ pc' = [pc EXCEPT ![t] = "connect"]
    /\ request' = [request EXCEPT ![t] = NoRequest]
    /\ reply' = [reply EXCEPT ![t] = NoReply]
    /\ listing' = [listing EXCEPT ![t] = <<>>]
    /\ pending' = [pending EXCEPT ![t] = NoOutcome]
    /\ outcome' = [outcome EXCEPT ![t] = NoOutcome]
    /\ log' = [log EXCEPT ![t] = <<"start">>]
    /\ UNCHANGED session_id

\* The scopes are entered; session.initialize() sends its request and
\* suspends.
ConnectOk(t) ==
    /\ pc[t] = "connect"
    /\ sessions' = [sessions EXCEPT ![handle[t]] = Connected(@)]
    /\ pc' = [pc EXCEPT ![t] = "initialize"]
    /\ log' = [log EXCEPT ![t] = Append(@, "acquire")]
    /\ UNCHANGED <<session_id, op, handle, request, reply, listing, pending,
                   outcome, starts>>

\* Entering the scopes fails: nothing was yielded, the exception leaves
\* the operation.
ConnectFail(t, e) ==
    /\ pc[t] = "connect"
    /\ sessions' = [sessions EXCEPT ![handle[t]] = ExitScope(@, Propagate(e))]
    /\ outcome' = [outcome EXCEPT ![t] = Propagate(e)]
    /\ pc' = [pc EXCEPT ![t] = "done"]
    /\ log' = [log EXCEPT ![t] = @ \o <<"release", "deliver">>]
    /\ UNCHANGED <<session_id, op, handle, request, reply, listing, pending,
                   starts>>

\* initialize() returns; lines 50-59 (296-298, 322-324) run to the next
\* suspension: session_id is set and the request is sent.
InitializeOk(t, sid) ==
    /\ pc[t] = "initialize"
    /\ session_id' = sid
    /\ sessions' = [sessions EXCEPT
                       ![handle[t]] = Requested(Initialized(@, sid))]
    /\ request' = [request EXCEPT ![t] = RequestOf(op[t])]
    /\ pc' = [pc EXCEPT ![t] = "await"]
    /\ log' = [log EXCEPT ![t] = @ \o <<"handshake", "request">>]
    /\ UNCHANGED <<op, handle, reply, listing, pending, outcome, starts>>

\* initialize() raises.
InitializeFail(t, e) ==
    /\ pc[t] = "initialize"
    /\ pending' = [pending EXCEPT ![t] = Propagate(e)]
    /\ pc' = [pc EXCEPT ![t] = "closing"]
    /\ UNCHANGED <<session_id, sessions, op, handle, request, reply, listing,
                   outcome, log, starts>>

\* call_tool returns r; lines 63-82 decode it and the return statement
\* starts leaving the scopes.
ToolReply(t, r) ==
    /\ pc[t] = "await"
    /\ op[t].kind = "call_tool"
    /\ reply' = [reply EXCEPT ![t] = r]
    /\ pending' = [pending EXCEPT ![t] = DecodeResult(r)]
    /\ pc' = [pc EXCEPT ![t] = "closing"]
    /\ log' = [log EXCEPT ![t] = Append(@, "decode")]
    /\ UNCHANGED <<session_id, sessions, op, handle, request, listing,
                   outcome, starts>>

\* list_tools / list_resources of the session returns the items l.
ListReply(t, l) ==
    /\ pc[t] = "await"
    /\ op[t].kind # "call_tool"
    /\ listing' = [listing EXCEPT ![t] = l]
    /\ pending' = [pending EXCEPT ![t] = Return(Descriptors(op[t].kind, l))]
    /\ pc' = [pc EXCEPT ![t] = "closing"]
    /\ log' = [log EXCEPT ![t] = Append(@, "decode")]
    /\ UNCHANGED <<session_id, sessions, op, handle, request, reply,
                   outcome, starts>>

\* The awaited request raises (the stream broke).
AwaitFail(t, e) ==
    /\ pc[t] = "await"
    /\ pending' = [pending EXCEPT ![t] = Propagate(e)]
    /\ pc' = [pc EXCEPT ![t] = "closing"]
    /\ UNCHANGED <<session_id, sessions, op, handle, request, reply, listing,
                   outcome, log, starts>>

\* Both scopes have exited: the session is closed and the caller gets the
\* value or the exception.
Close(t) ==
    /\ pc[t] = "closing"
    /\ sessions' = [sessions EXCEPT ![handle[t]] = ExitScope(@, pending[t])]
    /\ outcome' = [outcome EXCEPT ![t] = pending[t]]
    /\ pc' = [pc EXCEPT ![t] = "done"]
    /\ log' = [log EXCEPT ![t] = @ \o <<"release", "deliver">>]
    /\ UNCHANGED <<session_id, op, handle, request, reply, listing, pending,
                   starts>>

\* The identifier the server gives session h: its own, or none.
ServerIds(h) == {h, NoSessionId}

Next ==
    \E t \in Tasks :
        \/ \E c \in Calls : Start(t, c)
        \/ ConnectOk(t)
        \/ \E e \in TransportErrors : ConnectFail(t, e)
        \/ \E sid \in ServerIds(handle[t]) : InitializeOk(t, sid)
        \/ \E e \in TransportErrors : InitializeFail(t, e)
        \/ \E r \in SpecReplies : ToolReply(t, r)
        \/ \E l \in Listings(op[t].kind) : ListReply(t, l)
        \/ \E e \in TransportErrors : AwaitFail(t, e)
        \/ Close(t)

Spec == Init /\ [][Next]_vars

(***************************************************************************)
(* One tool call that meets no failure, over every text reply of at most   *)
(* MaxTextLen characters and every reply of DecodeReplies.                 *)
(***************************************************************************)
DecodeTask == "t1"

NextDecode ==
    \/ pc[DecodeTask] = "idle"
         /\ Start(DecodeTask, Call("call_tool", "get_release_date", ParamsVersion))
    \/ ConnectOk(DecodeTask)
    \/ InitializeOk(DecodeTask, handle[DecodeTask])
    \/ pc[DecodeTask] = "await"
         /\ \E n \in 0..MaxTextLen : \E f \in [1..n -> Chars] :
                ToolReply(DecodeTask,
                          ToolResult(FALSE, <<TextBlock(TextOf(f, n))>>))
    \/ pc[DecodeTask] = "await"
         /\ \E r \in DecodeReplies : ToolReply(DecodeTask, r)
    \/ Close(DecodeTask)

SpecDecode == Init /\ [][NextDecode]_vars

(***************************************************************************)
(* The caller cancels the task of an operation in flight (task.cancel(),   *)
(* or the timeout of asyncio.wait_for, which cancels the task): asyncio    *)
(* raises CancelledError at the await the coroutine is suspended in, here  *)
(* entering the scopes, initialize(), or the awaited request.  The code    *)
(* has no except clause, so the exception leaves through the scopes as     *)
(* any other does.                                                         *)
(***************************************************************************)
Cancel(t) ==
    /\ pc[t] \in {"connect", "initialize", "await"}
    /\ IF pc[t] = "connect"
       THEN /\ sessions' = [sessions EXCEPT ![handle[t]] =
                                ExitScope(@, Propagate("CancelledError"))]
            /\ outcome' = [outcome EXCEPT ![t] = Propagate("CancelledError")]
            /\ pc' = [pc EXCEPT ![t] = "done"]
            /\ log' = [log EXCEPT ![t] = @ \o <<"cancel", "release", "deliver">>]
            /\ UNCHANGED pending
       ELSE /\ pending' = [pending EXCEPT ![t] = Propagate("CancelledError")]
            /\ pc' = [pc EXCEPT ![t] = "closing"]
            /\ log' = [log EXCEPT ![t] = Append(@, "cancel")]
            /\ UNCHANGED <<sessions, outcome>>
    /\ UNCHANGED <<session_id, op, handle, request, reply, listing, starts>>

CancelReply == ToolResult(FALSE, <<TextBlock(TextQuotedA)>>)

NextCancel ==
    \E t \in Tasks :
        \/ \E c \in Calls : Start(t, c)
        \/ ConnectOk(t)
        \/ \E e \in TransportErrors : ConnectFail(t, e)
        \/ InitializeOk(t, handle[t])
        \/ \E e \in TransportErrors : InitializeFail(t, e)
        \/ ToolReply(t, CancelReply)
        \/ \E l \in Listings(op[t].kind) : ListReply(t, l)
        \/ \E e \in TransportErrors : AwaitFail(t, e)
        \/ Cancel(t)
        \/ Close(t)

SpecCancel == Init /\ [][NextCancel]_vars

(***************************************************************************)
(* One call of a tool wrapper that meets no failure, over the wrappers     *)
(* with optional arguments and the values of WrapperCalls.                 *)
(***************************************************************************)
NextWrappers ==
    \/ pc[DecodeTask] = "idle" /\ \E c \in WrapperCalls : Start(DecodeTask, c)
    \/ ConnectOk(DecodeTask)
    \/ InitializeOk(DecodeTask, handle[DecodeTask])
    \/ ToolReply(DecodeTask, CancelReply)
    \/ Close(DecodeTask)

SpecWrappers == Init /\ [][NextWrappers]_vars

(***************************************************************************)
(* Progress.  At each of its awaits (entering the scopes, initialize(),    *)
(* the request) an operation is resumed by a response or by a failure of   *)
(* the transport; once it has its result the event loop runs it through    *)
(* the exit of its scopes.  The code sets no timeout: nothing else takes   *)
(* an operation out of an await.                                           *)
(***************************************************************************)
LiveCalls ==
    { Call("call_tool", "get_release_date", ParamsVersion),
      Call("list_tools", "", PyNone) }

\* The await the task's operation is suspended in yields.
Yield(t) ==
    \/ ConnectOk(t)
    \/ \E e \in TransportErrors : ConnectFail(t, e)
    \/ InitializeOk(t, handle[t])
    \/ \E e \in TransportErrors : InitializeFail(t, e)
    \/ ToolReply(t, CancelReply)
    \/ \E l \in Listings(op[t].kind) : ListReply(t, l)
    \/ \E e \in TransportErrors : AwaitFail(t, e)

NextLive ==
    \E t \in Tasks :
        \/ \E c \in LiveCalls : Start(t, c)
        \/ Yield(t)
        \/ Close(t)

SpecLive ==
    /\ Init /\ [][NextLive]_vars
    /\ \A t \in Tasks : WF_vars(Yield(t)) /\ WF_vars(Close(t))

(***************************************************************************)
(* Two tool calls on one client, neither meeting a failure, each over      *)
(* every reply of DecodeReplies: what two replies decode to can be         *)
(* compared.                                                               *)
(***************************************************************************)
NextPair ==
    \E t \in Tasks :
        \/ pc[t] = "idle"
             /\ Start(t, Call("call_tool", "get_release_date", ParamsVersion))
        \/ ConnectOk(t)
        \/ InitializeOk(t, handle[t])
        \/ pc[t] = "await" /\ \E r \in DecodeReplies : ToolReply(t, r)
        \/ Close(t)

SpecPair == Init /\ [][NextPair]_vars

(***************************************************************************)
(* Properties.                                                             *)
(***************************************************************************)
Events(t) == {log[t][i] : i \in 1..Len(log[t])}
Delivered(t) == outcome[t].kind # "none"
InProgress(t) == pc[t] \in {"connect", "initialize", "await", "closing"}
Live(h) == sessions[h].state # "closed"
Started(t) == handle[t] # 0
SessionOf(t) == sessions[handle[t]]
\* The task's tool call got a CallToolResult.
GotReply(t) == op[t].kind = "call_tool" /\ "decode" \in Events(t)
FirstBlock(t) == reply[t].content[1]

\* C1: a tool call whose reply flags a server-side tool error (isError)
\* ends in a ToolError; the error text is never returned as a value.
C1_ToolErrorRaised ==
    \A t \in Tasks :
        (Delivered(t) /\ GotReply(t) /\ reply[t].isError)
            => (outcome[t].kind = "raise" /\ outcome[t].exc = "ToolError")

\* C2: every session an operation opened is closed when the operation has
\* finished, on every exit path; the sessions not yet closed are exactly
\* those of the operations in progress, one each.  A session is held from
\* the entry of streamablehttp_client, the operation's first statement,
\* until both scopes have exited.
C2_SessionsClosed ==
    /\ Cardinality({h \in DOMAIN sessions : Live(h)})
           = Cardinality({t \in Tasks : InProgress(t)})
    /\ \A t \in Tasks :
           /\ InProgress(t) => (Live(handle[t]) /\ SessionOf(t).owner = t)
           /\ pc[t] = "done" => ~Live(handle[t])
    /\ (\A t \in Tasks : ~InProgress(t)) => (\A h \in DOMAIN sessions : ~Live(h))

\* An operation failed after its request went out, and its session is
\* closed.
C2_Witness ==
    \E t \in Tasks :
        /\ pc[t] = "done"
        /\ outcome[t].kind = "raise"
        /\ SessionOf(t).nReq = 1
        /\ ~Live(handle[t])

\* C3: an operation whose connection or handshake fails ends in a
\* ConnectionError, not a ToolError, and sends no tool or discovery
\* request.
C3_HandshakeFailure ==
    \A t \in Tasks :
        (Started(t) /\ ~SessionOf(t).initialized)
            => /\ SessionOf(t).nReq = 0
               /\ request[t] = NoRequest
               /\ pc[t] = "done" =>
                      /\ outcome[t] = Raise("ConnectionError")
                      /\ outcome[t].exc # "ToolError"

\* The handshake was attempted and failed.
C3_Witness ==
    \E t \in Tasks :
        /\ pc[t] = "done"
        /\ SessionOf(t).nInit = 1
        /\ ~SessionOf(t).initialized
        /\ outcome[t].kind = "raise"

Rank(ev) ==
    CASE ev = "start" -> 0
      [] ev = "acquire" -> 1
      [] ev = "handshake" -> 2
      [] ev = "request" -> 3
      [] ev = "decode" -> 4
      [] ev = "release" -> 5
      [] ev = "deliver" -> 6
FullChain ==
    <<"start", "acquire", "handshake", "request", "decode", "release",
      "deliver">>

\* C4: within one call the session is acquired, then the handshake
\* completes, then the request is sent, then the reply is decoded, then
\* the session is released, then the result is delivered; no event of the
\* chain happens before an earlier one.
C4_EventOrder ==
    \A t \in Tasks :
        /\ \A i, j \in 1..Len(log[t]) :
               i < j => Rank(log[t][i]) < Rank(log[t][j])
        /\ "deliver" \in Events(t) => "release" \in Events(t)
        /\ "decode" \in Events(t) => "request" \in Events(t)
        /\ "request" \in Events(t) => "handshake" \in Events(t)
        /\ "handshake" \in Events(t) => "acquire" \in Events(t)
        /\ Started(t) =>
               /\ SessionOf(t).nReq > 0 => SessionOf(t).initialized
               /\ SessionOf(t).initialized => SessionOf(t).nInit > 0
               /\ SessionOf(t).nInit > 0 => SessionOf(t).state # "connecting"
               /\ pending[t].kind = "return" => SessionOf(t).nReq > 0
               /\ Delivered(t) => SessionOf(t).state = "closed"
        /\ (Delivered(t) /\ outcome[t].kind = "return") => log[t] = FullChain

\* A call went through the whole chain.
C4_Witness ==
    \E t \in Tasks : log[t] = FullChain /\ outcome[t].kind = "return"

\* C5: the request of a tool call carries the tool name and an envelope
\* with the single field `params`, equal to the caller's bag, and the
\* empty mapping when the bag is absent (None); never omitted, never null.
C5_ParamsEnvelope ==
    \A t \in Tasks :
        (op[t].kind = "call_tool" /\ request[t] # NoRequest)
            => /\ request[t].method = "tools/call"
               /\ request[t].name = op[t].tool
               /\ request[t].arguments.t = "dict"
               /\ {p[1] : p \in request[t].arguments.members} = {KeyParams}
               /\ \A p \in request[t].arguments.members :
                      /\ p[2] # PyNone
                      /\ p[2] = IF op[t].params = PyNone THEN PyDict({})
                                ELSE op[t].params

\* Requests went out for an absent bag and for a bag with an entry.
C5_Witness ==
    \E t, u \in Tasks :
        /\ request[t] # NoRequest /\ op[t].kind = "call_tool"
        /\ op[t].params = PyNone
        /\ request[u] # NoRequest /\ op[u].kind = "call_tool"
        /\ op[u].params = ParamsVersion
(***************************************************************************)
(* JSON texts by the grammar of RFC 8259 (integers only, no escapes), on   *)
(* the characters s[a..b]: what "valid JSON" means below.                  *)
(***************************************************************************)
AllWs(s, a, b) == \A k \in a..b : s[k] \in Whitespace

GLiteral(s, a, b) ==
    SubSeq(s, a, b) \in {LitNull, LitTrue, LitFalse}

GNumber(s, a, b) ==
    LET d == IF s[a] = "-" THEN a + 1 ELSE a
    IN  /\ d <= b
        /\ \A k \in d..b : s[k] \in Digits
        /\ s[d] = "0" => d = b

GString(s, a, b) ==
    /\ a < b
    /\ s[a] = Quote
    /\ s[b] = Quote
    /\ \A k \in (a + 1)..(b - 1) : s[k] \notin {Quote, "\\"}

RECURSIVE GValue(_, _, _), GElements(_, _, _), GMembers(_, _, _)

\* ws value ws
GElement(s, a, b) ==
    \E i \in a..b : \E j \in i..b :
        AllWs(s, a, i - 1) /\ AllWs(s, j + 1, b) /\ GValue(s, i, j)

\* ws string ws ":" element
GMember(s, a, b) ==
    \E k \in a..b :
        /\ s[k] = ":"
        /\ \E i \in a..(k - 1) : \E j \in i..(k - 1) :
               AllWs(s, a, i - 1) /\ AllWs(s, j + 1, k - 1) /\ GString(s, i, j)
        /\ GElement(s, k + 1, b)

GElements(s, a, b) ==
    \/ GElement(s, a, b)
    \/ \E k \in a..b :
           s[k] = "," /\ GElement(s, a, k - 1) /\ GElements(s, k + 1, b)

GMembers(s, a, b) ==
    \/ GMember(s, a, b)
    \/ \E k \in a..b :
           s[k] = "," /\ GMember(s, a, k - 1) /\ GMembers(s, k + 1, b)

GValue(s, a, b) ==
    /\ a <= b
    /\ \/ GLiteral(s, a, b)
       \/ GNumber(s, a, b)
       \/ GString(s, a, b)
       \/ /\ a < b /\ s[a] = "[" /\ s[b] = "]"
          /\ (AllWs(s, a + 1, b - 1) \/ GElements(s, a + 1, b - 1))
       \/ /\ a < b /\ s[a] = "{" /\ s[b] = "}"
          /\ (AllWs(s, a + 1, b - 1) \/ GMembers(s, a + 1, b - 1))

IsJsonText(s) == GElement(s, 1, Len(s))

(***************************************************************************)
(* json.dumps(v, separators=(",", ":")) of a value without floats, with    *)
(* the keys of a dict in some order.                                       *)
(***************************************************************************)
DigitChar(d) ==
    CASE d = 0 -> "0" [] d = 1 -> "1" [] d = 2 -> "2" [] d = 3 -> "3"
      [] d = 4 -> "4" [] d = 5 -> "5" [] d = 6 -> "6" [] d = 7 -> "7"
      [] d = 8 -> "8" [] d = 9 -> "9"

RECURSIVE NatText(_)
NatText(n) ==
    IF n < 10 THEN <<DigitChar(n)>>
    ELSE Append(NatText(n \div 10), DigitChar(n % 10))

RECURSIVE JsonDumps(_), DumpItems(_, _), DumpMembers(_)

DumpItems(items, i) ==
    IF i > Len(items) THEN <<>>
    ELSE (IF i > 1 THEN <<",">> ELSE <<>>)
             \o JsonDumps(items[i]) \o DumpItems(items, i + 1)

DumpMembers(members) ==
    IF members = {} THEN <<>>
    ELSE LET p == CHOOSE q \in members : TRUE
             rest == members \ {p}
         IN  <<Quote>> \o p[1] \o <<Quote, ":">> \o JsonDumps(p[2])
                 \o (IF rest = {} THEN <<>> ELSE <<",">>)
                 \o DumpMembers(rest)

JsonDumps(v) ==
    CASE v.t = "none" -> LitNull
      [] v.t = "bool" -> IF v.n = 1 THEN LitTrue ELSE LitFalse
      [] v.t = "int" ->
            IF v.n < 0 THEN <<"-">> \o NatText(0 - v.n) ELSE NatText(v.n)
      [] v.t = "str" -> <<Quote>> \o v.s \o <<Quote>>
      [] v.t = "list" -> <<"[">> \o DumpItems(v.items, 1) \o <<"]">>
      [] v.t = "dict" -> <<"{">> \o DumpMembers(v.members) \o <<"}">>

\* The variant the classification puts a reply in: no block, then the
\* first block's text, then its binary data, then neither.
Variant(r) ==
    IF r.contentIsNone \/ r.content = <<>> THEN "RawValue"
    ELSE IF HasAttr(r.content[1], "text")
         THEN (IF IsJsonText(r.content[1].text) THEN "JSONValue"
               ELSE "TextValue")
    ELSE IF HasAttr(r.content[1], "data") THEN "ImageValue"
    ELSE "RawValue"

\* The task's tool call returned a value decoded from its reply.
Decoded(t) == GotReply(t) /\ outcome[t].kind = "return"
\* The reply the task's finished tool call got had a first block.
GotBlock(t) ==
    /\ Delivered(t) /\ GotReply(t)
    /\ ~reply[t].contentIsNone /\ reply[t].content # <<>>

\* C6: the returned value is of exactly one of the variants JSONValue,
\* TextValue, ImageValue, RawValue, and the value determines the variant:
\* replies classified into different variants never yield equal values.
C6_VariantDetermined ==
    \A t, u \in Tasks :
        (Decoded(t) /\ Decoded(u) /\ Variant(reply[t]) # Variant(reply[u]))
            => outcome[t].value # outcome[u].value

TextDataObject ==
    <<"{", Quote, "d", "a", "t", "a", Quote, ":", " ", "{", "}", "}">>

C8_TextFallback ==
    \A t \in Tasks :
        (GotBlock(t) /\ HasAttr(FirstBlock(t), "text")
             /\ ~IsJsonText(FirstBlock(t).text))
            => outcome[t] = Return(PyStr(FirstBlock(t).text))

\* C9: a reply whose first block is binary-bearing and not text-bearing
\* yields the image value with the block's data and its MIME type, and
\* with image/jpeg when the block has no mimeType or one without a value.
C9_ImageDecoded ==
    \A t \in Tasks :
        (GotBlock(t) /\ ~HasAttr(FirstBlock(t), "text")
             /\ HasAttr(FirstBlock(t), "data"))
            => outcome[t] = Return(PyDict(
                   {<<KeyType, PyStr(StrImage)>>,
                    <<KeyData, FirstBlock(t).data>>,
                    <<KeyMimeType,
                      IF ~HasAttr(FirstBlock(t), "mimeType")
                             \/ FirstBlock(t).mimeType = PyNone
                      THEN PyStr(ImageJpeg)
                      ELSE FirstBlock(t).mimeType>>}))

\* C10: a reply with no content block (an empty list, or no list) yields
\* the reply itself, unchanged.
C10_EmptyContent ==
    \A t \in Tasks :
        (Delivered(t) /\ GotReply(t)
             /\ (reply[t].contentIsNone \/ Len(reply[t].content) = 0))
            => outcome[t] = Return(PyObj(reply[t]))

\* Both kinds of empty reply came back as themselves; here the one that
\* has no content list and flags an error.
C10_Witness ==
    \E t \in Tasks :
        /\ Delivered(t) /\ GotReply(t)
        /\ reply[t] = NoContentResult(TRUE)
        /\ outcome[t].value.obj = reply[t]

\* The first block of the reply has neither a text nor a data attribute.
Unrecognised(block) == ~HasAttr(block, "text") /\ ~HasAttr(block, "data")

C12_FirstBlockOnly ==
    \A t, u \in Tasks :
        (GotBlock(t) /\ GotBlock(u) /\ FirstBlock(t) = FirstBlock(u))
            => /\ Variant(reply[t]) = Variant(reply[u])
               /\ outcome[t].kind = "return" /\ outcome[u].kind = "return"
               /\ IF Unrecognised(FirstBlock(t))
                  THEN /\ outcome[t].value = PyObj(reply[t])
                       /\ outcome[u].value = PyObj(reply[u])
                  ELSE outcome[t] = outcome[u]
C12_Witness ==
    \E t, u \in Tasks :
        /\ GotBlock(t) /\ GotBlock(u)
        /\ FirstBlock(t) = FirstBlock(u)
        /\ Len(reply[t].content) = 1 /\ Len(reply[u].content) = 2
        /\ HasAttr(FirstBlock(t), "data")
        /\ outcome[t].value.t = "dict"
        /\ outcome[t] = outcome[u]

\* The task's discovery call got the server's list.
GotListing(t) ==
    /\ op[t].kind \in {"list_tools", "list_resources"}
    /\ "decode" \in Events(t) /\ Delivered(t)

\* C13: list_tools and list_resources return one descriptor per item the
\* server advertised, in the server's order, dropping, repeating, merging
\* and reordering none, with exactly the fields name, description,
\* inputSchema of a tool and uri, name, description of a resource, each as
\* the server gave it.
C13_DescriptorsVerbatim ==
    \A t \in Tasks :
        GotListing(t)
            => /\ outcome[t].kind = "return"
               /\ outcome[t].value.t = "list"
               /\ Len(outcome[t].value.items) = Len(listing[t])
               /\ \A i \in 1..Len(listing[t]) :
                      /\ outcome[t].value.items[i].t = "dict"
                      /\ outcome[t].value.items[i].members =
                            IF op[t].kind = "list_tools"
                            THEN {<<KeyName, listing[t][i].name>>,
                                  <<KeyDescription, listing[t][i].description>>,
                                  <<KeyInputSchema, listing[t][i].inputSchema>>}
                            ELSE {<<KeyUri, listing[t][i].uri>>,
                                  <<KeyName, listing[t][i].name>>,
                                  <<KeyDescription, listing[t][i].description>>}
C13_Witness ==
    \E t \in Tasks :
        /\ GotListing(t) /\ op[t].kind = "list_tools"
        /\ Len(listing[t]) = 3
        /\ listing[t][1] = listing[t][3] /\ listing[t][1] # listing[t][2]
        /\ Len(outcome[t].value.items) = 3
        /\ outcome[t].value.items[1] = outcome[t].value.items[3]
        /\ <<KeyName, PyStr(<<"A">>)>> \in outcome[t].value.items[2].members

\* The task's call is in flight and has written the identifier of its
\* session to the client (line 50, 296 or 322).
WroteSessionId(t) ==
    /\ pc[t] \in {"await", "closing"}
    /\ SessionOf(t).initialized

\* C14: concurrent calls share no session state: what a call in flight has
\* written, the client's session_id included, is not overwritten by
\* another call in flight; while a call that has completed its handshake
\* is in flight, the client's session_id is the identifier that call
\* wrote.
C14_NoSharedSessionState ==
    \A t \in Tasks :
        WroteSessionId(t) => session_id = SessionOf(t).sid

\* C15: every operation acquires a session of its own, new at the
\* acquisition, and a session serves one operation: no session carries
\* more than one handshake or more than one tool or discovery request, no
\* two operations hold the same session, and the request of an operation
\* went over the session that operation opened.
C15_SessionPerOperation ==
    /\ Len(sessions) = starts
    /\ \A h \in DOMAIN sessions :
           sessions[h].nInit <= 1 /\ sessions[h].nReq <= 1
    /\ \A t \in Tasks :
           Started(t)
               => /\ SessionOf(t).owner = t
                  /\ pc[t] = "connect" => SessionOf(t) = OpenTransport(t)
                  /\ SessionOf(t).nReq = (IF request[t] = NoRequest THEN 0 ELSE 1)
                  /\ \A u \in Tasks \ {t} : handle[u] # handle[t]
C15_Witness ==
    /\ Len(sessions) = 2
    /\ sessions[1].owner = sessions[2].owner
    /\ sessions[1].nReq = 1 /\ sessions[2].nReq = 1
    /\ sessions[1].state = "closed"

\* The task's operation has met a failure.
Failed(t) == pending[t].kind = "raise" \/ outcome[t].kind = "raise"

\* C16: nothing is retried.  In every step of an operation that goes on
\* (the task starts no new one), its session has had at most one handshake
\* and at most one request, no further connection is opened for it, and
\* once it has met a failure no handshake and no request is sent any more.
C16_NoRetry ==
    [][\A t \in Tasks :
          (Started(t) /\ handle'[t] = handle[t])
              => /\ sessions'[handle[t]].nInit <= 1
                 /\ sessions'[handle[t]].nReq <= 1
                 /\ \A h \in DOMAIN sessions' \ DOMAIN sessions :
                        sessions'[h].owner # t
                 /\ Failed(t)
                        => /\ sessions'[handle[t]].nInit = sessions[handle[t]].nInit
                           /\ sessions'[handle[t]].nReq = sessions[handle[t]].nReq
                           /\ request'[t] = request[t]]_vars
\* A tool call whose request went out failed, and ended with the one
\* handshake and the one request it had made.
C16_Witness ==
    \E t \in Tasks :
        /\ pc[t] = "done" /\ op[t].kind = "call_tool"
        /\ outcome[t] = Raise("ConnectionError")
        /\ request[t].method = "tools/call"
        /\ SessionOf(t).nInit = 1 /\ SessionOf(t).nReq = 1

\* The caller cancelled the task's operation while it was in flight.
Cancelled(t) == "cancel" \in Events(t)

\* C17: when the caller cancels, or times out, an operation in flight
\* (connecting, in the handshake, or awaiting its reply), the session's
\* connection is closed and the operation ends in a ConnectionError.
C17_CancelIsConnectionError ==
    \A t \in Tasks :
        (Cancelled(t) /\ pc[t] = "done")
            => /\ SessionOf(t).state = "closed"
               /\ outcome[t] = Raise("ConnectionError")

\* The image dict lines 76-80 would make of the block.
ImageOf(block) ==
    PyDict({<<KeyType, PyStr(StrImage)>>,
            <<KeyData, block.data>>,
            <<KeyMimeType, IF HasAttr(block, "mimeType") THEN block.mimeType
                           ELSE PyStr(ImageJpeg)>>})

\* C18: the first block is classified by first match, text before binary
\* before raw: a first block with both a text and a data attribute is
\* decoded as text (parsed as JSON, else the text itself), never as an
\* image; and decoding is deterministic: two calls that get the same reply
\* end in the same result.
C18_TextBeforeBinary ==
    /\ \A t \in Tasks :
           (GotBlock(t) /\ HasAttr(FirstBlock(t), "text")
                       /\ HasAttr(FirstBlock(t), "data"))
               => /\ outcome[t].kind = "return"
                  /\ outcome[t].value =
                        IF JsonLoads(FirstBlock(t).text).ok
                        THEN JsonLoads(FirstBlock(t).text).val
                        ELSE PyStr(FirstBlock(t).text)
                  /\ outcome[t].value # ImageOf(FirstBlock(t))
    /\ \A t, u \in Tasks :
           (Delivered(t) /\ GotReply(t) /\ Delivered(u) /\ GotReply(u)
                /\ reply[t] = reply[u])
               => outcome[t] = outcome[u]
C18_Witness ==
    \E t, u \in Tasks :
        /\ t # u /\ GotBlock(t) /\ GotBlock(u)
        /\ FirstBlock(t) = TextDataBlock(TextA, PayloadData, PyStr(ImagePng))
        /\ FirstBlock(u) = TextDataBlock(TextQuotedA, PayloadData, PyNone)
        /\ outcome[t].value = PyStr(TextA)
        /\ outcome[u].value = PyStr(TextA)

\* The optional arguments of a wrapper, each with its default.
OptionalDefaults(tool) ==
    IF tool = "has_nightly_regressed"
    THEN {<<KeyPreviousNightly, PyStr(<<>>)>>, <<KeyConfigs, PyStr(<<>>)>>}
    ELSE {<<KeySince, PyNone>>}
\* The bag of a request: the value of `params` in its arguments.
BagOf(req) == (CHOOSE p \in req.arguments.members : p[1] = KeyParams)[2]
\* The value the caller passed for the argument k.
ArgOf(c, k) == (CHOOSE p \in c.args : p[1] = k)[2]

\* C19: a wrapper puts an optional argument into the bag only when the
\* caller passed a value other than its default: since left at None
\* (openshift_report_on, metrics_correlation), previous_nightly and configs
\* left at "" (has_nightly_regressed) make no key in the bag sent to the
\* server, and any other value makes the key with that value.
C19_OptionalOnlyWhenSupplied ==
    \A t \in Tasks :
        request[t] # NoRequest
            => \A d \in OptionalDefaults(op[t].tool) :
                   IF ArgOf(op[t], d[1]) = d[2]
                   THEN \A p \in BagOf(request[t]).members : p[1] # d[1]
                   ELSE <<d[1], ArgOf(op[t], d[1])>>
                            \in BagOf(request[t]).members

\* In this step the task's operation fails at the connection or in the
\* handshake.
FailsBeforeSession(t) ==
    \/ pc[t] = "connect" /\ pc'[t] = "done"
    \/ pc[t] = "initialize" /\ pc'[t] = "closing"
\* In this step the task's handshake succeeds.
HandshakeSucceeds(t) ==
    /\ pc[t] = "initialize" /\ pc'[t] = "await"
    /\ sessions'[handle[t]].initialized

\* C20: session_id is null from construction until the first handshake
\* succeeds and is written only by a successful handshake; an operation
\* whose connection or handshake fails leaves it unchanged, and what it
\* holds after the failure is null or the identifier of another session,
\* initialized earlier and already closed.
C20_SessionIdFrame ==
    [][/\ (\A h \in DOMAIN sessions' : ~sessions'[h].initialized)
              => session_id' = NoSessionId
       /\ session_id' # session_id
              => \E t \in Tasks :
                     /\ HandshakeSucceeds(t)
                     /\ session_id' = sessions'[handle[t]].sid
       /\ \A t \in Tasks :
              FailsBeforeSession(t)
                  => /\ session_id' = session_id
                     /\ \/ session_id' = NoSessionId
                        \/ \E h \in DOMAIN sessions' :
                               /\ h # handle[t]
                               /\ sessions'[h].initialized
                               /\ sessions'[h].sid = session_id'
                               /\ sessions'[h].state = "closed"]_vars

\* The task's operation has finished: the caller has a result or an
\* exception, and the session is closed.
Finished(t) == pc[t] = "done" /\ Delivered(t) /\ ~Live(handle[t])

\* C21: if each await of an operation (connection, handshake, reply)
\* eventually yields a response or a transport failure, every operation
\* started eventually finishes, with a result or an exception, and its
\* session closed.  The client sets no timeout: an operation awaiting its
\* reply stays there, its session open, until the reply or a transport
\* failure comes.
C21_EventuallyFinished ==
    /\ \A t \in Tasks : InProgress(t) ~> Finished(t)
    /\ [][\A t \in Tasks :
             pc[t] = "await"
                 => \/ pc'[t] = "await" /\ sessions'[handle[t]].state = "open"
                    \/ /\ pc'[t] = "closing"
                       /\ \/ "decode" \in {log'[t][i] : i \in 1..Len(log'[t])}
                          \/ pending'[t].exc \in TransportErrors]_vars
\* A discovery call and a failed tool call have both finished.
C21_Witness ==
    \E t, u \in Tasks :
        /\ Finished(t) /\ op[t].kind = "list_tools"
        /\ outcome[t].kind = "return"
        /\ Finished(u) /\ op[u].kind = "call_tool"
        /\ outcome[u].kind = "raise" /\ SessionOf(u).nReq = 1
====
